---- MODULE Spec2Model ----
(***************************************************************************)
(* Networking assistant: the research pipeline and the contact store, in   *)
(* its console front end (main2.py) and its Tk front end (app2.py).        *)
(*                                                                         *)
(* Strings are TLA+ strings.  Every string of the model is far shorter     *)
(* than the 500 characters that sanitize_input keeps and the 5000 that     *)
(* scrape_website keeps, so the slices [:500] and [:5000] leave them as    *)
(* they are; str.strip() is modelled by Strip.                             *)
(***************************************************************************)
EXTENDS Integers, Sequences, FiniteSets, TLC

\* ------------------------------------------------------------------ bounds
\* the pipeline runs of the console, the worker threads of the Tk front end
MaxRuns == 1
MaxThreads == 1
MaxStore == 1
MaxArticles == 1
\* the worker threads of the runs that may overlap
RaceThreads == 2
\* the longest article list the news loop is run on alone
MaxProbeArticles == 2

\* ----------------------------------------------------------------- strings
StripTable ==
  [s \in {" Bob ", " ", " energy ", " https://acme.example "} |->
     CASE s = " Bob " -> "Bob"
       [] s = " " -> ""
       [] s = " energy " -> "energy"
       [] s = " https://acme.example " -> "https://acme.example"]

Strip(s) == IF s \in DOMAIN StripTable THEN StripTable[s] ELSE s

sanitize_input(text) == IF text # "" THEN Strip(text) ELSE ""

\* urlparse(u) for the model's URLs: whether it raises (ValueError), and the
\* scheme, netloc and hostname of its result
Parsed(scheme, netloc, hostname) ==
  [raised |-> FALSE, scheme |-> scheme, netloc |-> netloc, hostname |-> hostname]

UrlParse(u) ==
  CASE u = "https://acme.example" -> Parsed("https", "acme.example", "acme.example")
    [] u = "http://beta.example/about" -> Parsed("http", "beta.example", "beta.example")
    [] u = "HTTP://ACME.EXAMPLE" -> Parsed("http", "ACME.EXAMPLE", "acme.example")
    [] u = "ftp://acme.example" -> Parsed("ftp", "acme.example", "acme.example")
    [] u = "//acme.example" -> Parsed("", "acme.example", "acme.example")
    [] u = "https://" -> Parsed("https", "", "")
    [] u = "http://:8080" -> Parsed("http", ":8080", "")
    [] u = "https://user@" -> Parsed("https", "user@", "")
    [] u = "http://[::1" -> [Parsed("", "", "") EXCEPT !.raised = TRUE]
    [] OTHER -> Parsed("", "", "")

is_valid_url(url) ==
  LET result == UrlParse(Strip(url))
  IN  IF result.raised THEN FALSE
      ELSE result.scheme \in {"http", "https"} /\ result.netloc # ""

\* ------------------------------------------------------------ the records
Entry(name, company, website, industry, summary, news_links, created) ==
  [name |-> name, role |-> "", linkedin |-> "", company |-> company,
   website |-> website, industry |-> industry, summary |-> summary,
   news_links |-> news_links, created_date |-> created]

SeedRecords ==
  { Entry("Alice", "Acme", "", "", "first brief", <<>>, 0),
    Entry("Bob", "Beta", "", "energy", "brief", <<"u1">>, 0) }

RECURSIVE SeqsUpTo(_, _)
SeqsUpTo(S, n) ==
  IF n = 0 THEN {<<>>}
  ELSE LET shorter == SeqsUpTo(S, n - 1)
       IN  shorter \cup {Append(q, x) : q \in {p \in shorter : Len(p) = n - 1}, x \in S}

Range(q) == {q[i] : i \in 1..Len(q)}

\* ------------------------------------------------------- the backing file
\* What networking_memory.json holds:
\*   absent      no such file
\*   list        a JSON list of contact records (recs)
\*   empty_obj   a JSON value that is not a list and iterates to nothing: {} or ""
\*   scalar      any other JSON value that is not a list: 5, null, {"a": 1}
\*   malformed   text that is not JSON (an empty or half-written file too)
\*   badutf8     bytes that are not UTF-8
\*   unreadable  the file exists and open(.., "r") raises OSError
FileOf(kind, recs) == [kind |-> kind, recs |-> recs]

ListFile(recs) == FileOf("list", recs)

InitFiles ==
  {FileOf(k, <<>>) : k \in {"absent", "empty_obj", "scalar", "malformed", "badutf8", "unreadable"}}
  \cup {ListFile(q) : q \in SeqsUpTo(SeedRecords, MaxStore)}

WriteOutcomes == {"ok", "open_fail", "write_fail"}

\* main2.load_memory: [raised, value]
load_memory(f) ==
  CASE f.kind = "absent" -> [raised |-> "", value |-> <<>>]
    [] f.kind = "list" -> [raised |-> "", value |-> f.recs]
    [] f.kind \in {"empty_obj", "scalar"} -> [raised |-> "", value |-> <<>>]
    [] f.kind \in {"malformed", "unreadable"} -> [raised |-> "", value |-> <<>>]
    [] f.kind = "badutf8" -> [raised |-> "UnicodeDecodeError", value |-> <<>>]

\* open(MEMORY_FILE, "w") followed by json.dump and the close of the file
WriteFile(f, data, outcome) ==
  CASE outcome = "ok" -> data
    [] outcome = "open_fail" -> f
    [] outcome = "write_fail" -> FileOf("malformed", <<>>)

\* a save_memory that writes the list without its first record
save_memory_drops_first(f, memory_data, outcome) ==
  [file |-> WriteFile(f, ListFile(Tail(memory_data)), outcome), ret |-> (outcome = "ok")]

\* main2.save_memory: [file, ret]
save_memory(f, memory_data, outcome) ==
  [file |-> WriteFile(f, ListFile(memory_data), outcome), ret |-> (outcome = "ok")]

\* --------------------------------------------------------- the news service
Articles ==
  { [title |-> "T", description |-> "D", url |-> "u1"],
    [title |-> "T", description |-> "", url |-> ""],
    [title |-> "", description |-> "", url |-> "u2"],
    [title |-> "", description |-> "D", url |-> "u2"] }

NewsResp(kind, status, akind, items) ==
  [kind |-> kind, status |-> status, akind |-> akind, items |-> items]

\* What requests.get(...) and response.json() do for the news request:
\*   timeout, conn_error, http_error (raise_for_status)
\*   bad_json          the body is not JSON; response.json() raises
\*                     requests.exceptions.JSONDecodeError (a RequestException)
\*   bad_json_legacy   the same with requests < 2.27: a plain ValueError
\*   non_object        the body is JSON but not an object: [], 5, null
\*   object            a JSON object with status and articles
NewsFailures ==
  {NewsResp(k, "", "absent", <<>>) :
      k \in {"timeout", "conn_error", "http_error", "bad_json", "bad_json_legacy", "non_object"}}
  \cup {NewsResp("object", s, "absent", <<>>) : s \in {"ok", "error", ""}}
  \cup {NewsResp("object", "ok", "nonlist", <<>>)}

\* fetch_news(api_key, query, num_articles: int = 5)
num_articles == 5

\* a body with one article more than the pageSize that was asked for
Overfull ==
  NewsResp("object", "ok", "list",
           [i \in 1..(num_articles + 1) |-> [title |-> "T", description |-> "D", url |-> "u1"]])

NewsResponses ==
  NewsFailures \cup {Overfull}
  \cup {NewsResp("object", "ok", "list", q) : q \in SeqsUpTo(Articles, MaxArticles)}

\* the responses the pipeline runs are explored with: a timeout, another
\* transport error, a body that is no object, and every article list
PipelineNews ==
  {NewsResp(k, "", "absent", <<>>) : k \in {"timeout", "conn_error", "non_object"}}
  \cup {NewsResp("object", "ok", "list", q) : q \in SeqsUpTo(Articles, MaxArticles)}

FetchResult(requested, raised, value) ==
  [requested |-> requested, raised |-> raised, value |-> value]

ParsedBody(resp) ==
  IF resp.status # "ok" THEN <<>>
  ELSE IF resp.akind = "list" THEN resp.items ELSE <<>>

\* main2.fetch_news
fetch_news(api_key, query, resp) ==
  IF Strip(query) = "" THEN FetchResult(FALSE, "", <<>>)
  ELSE CASE resp.kind \in {"timeout", "conn_error", "http_error", "bad_json"} ->
              FetchResult(TRUE, "", <<>>)
         [] resp.kind = "bad_json_legacy" -> FetchResult(TRUE, "ValueError", <<>>)
         [] resp.kind = "non_object" -> FetchResult(TRUE, "AttributeError", <<>>)
         [] resp.kind = "object" -> FetchResult(TRUE, "", ParsedBody(resp))

\* app2.NetworkingAssistantGUI.fetch_news
gui_fetch_news(api_key, query, resp) ==
  IF Strip(query) = "" \/ api_key = "" THEN FetchResult(FALSE, "", <<>>)
  ELSE CASE resp.kind = "object" -> FetchResult(TRUE, "", ParsedBody(resp))
         [] OTHER -> FetchResult(TRUE, "", <<>>)

\* article.get(key, '')
Get(article, key) == IF key \in DOMAIN article THEN article[key] ELSE ""

\* the loop of the pipeline over the articles: the urls kept, in order
RECURSIVE NewsLinks(_)
NewsLinks(articles) ==
  IF articles = <<>> THEN <<>>
  ELSE LET title == Get(Head(articles), "title")
           description == Get(Head(articles), "description")
           url == Get(Head(articles), "url")
           rest == NewsLinks(Tail(articles))
       IN  IF (title # "" \/ description # "") /\ url # ""
           THEN <<url>> \o rest ELSE rest

\* the entries "title: description" of news_content
NewsContent(articles) ==
  SelectSeq(articles, LAMBDA a : Get(a, "title") # "" \/ Get(a, "description") # "")

\* ------------------------------------------------------------ the web fetch
SiteOutcomes == {"ok_content", "ok_empty", "timeout", "error"}

\* a scrape_website that sends its request before it looks at the URL
scrape_website_fetches_first(url, outcome) ==
  IF ~is_valid_url(url) THEN [requested |-> TRUE, raised |-> "ValueError", text |-> ""]
  ELSE [requested |-> TRUE, raised |-> "", text |-> "site text"]

\* scrape_website (both front ends): [requested, raised, text]
scrape_website(url, outcome) ==
  IF ~is_valid_url(url) THEN [requested |-> FALSE, raised |-> "ValueError", text |-> ""]
  ELSE CASE outcome = "timeout" -> [requested |-> TRUE, raised |-> "RuntimeError", text |-> ""]
         [] outcome = "error" -> [requested |-> TRUE, raised |-> "RuntimeError", text |-> ""]
         [] outcome = "ok_empty" -> [requested |-> TRUE, raised |-> "", text |-> ""]
         [] outcome = "ok_content" -> [requested |-> TRUE, raised |-> "", text |-> "site text"]

\* ------------------------------------------------------- the language model
LlmOutcomes == {"ok", "error"}

CliSentinel == "No content available for summary."
GuiSentinel == "No content available for summary or API key missing."

\* main2.generate_summary: content is the list all_content
generate_summary(content, llm) ==
  IF content = <<>> THEN [called |-> FALSE, text |-> CliSentinel]
  ELSE IF llm = "ok" THEN [called |-> TRUE, text |-> "generated brief"]
  ELSE [called |-> TRUE, text |-> "Summary generation failed. Manual notes"]

\* app2.NetworkingAssistantGUI.generate_summary
gui_generate_summary(content, gemini_key, llm) ==
  IF content = <<>> \/ gemini_key = "" THEN [called |-> FALSE, text |-> GuiSentinel]
  ELSE IF llm = "ok" THEN [called |-> TRUE, text |-> "generated brief"]
  ELSE [called |-> TRUE, text |-> "Summary generation failed: error. Manual notes"]

\* all_content after the website step and the news step
AllContent(site_text, news_content) ==
  (IF site_text # "" THEN <<"website">> ELSE <<>>)
  \o (IF news_content # <<>> THEN <<"news">> ELSE <<>>)


\* ------------------------------------------------------------- the inputs
FormOf(name, company, website, industry) ==
  [name |-> name, role |-> "", linkedin |-> "", company |-> company,
   website |-> website, industry |-> industry]

\* what the user types into the prompts or into the form
FormInputs ==
  { FormOf("Alice", "Acme", "", ""),
    FormOf(" Bob ", "Beta", "https://acme.example", " energy "),
    FormOf("Alice", "Acme", "acme.example", "energy"),
    FormOf(" ", "Acme", "", "") }

EmptyForm == FormOf("", "", "", "")

\* {key: var.get().strip() ...}, and the .strip() of every prompt
StripForm(f) ==
  [name |-> Strip(f.name), role |-> Strip(f.role), linkedin |-> Strip(f.linkedin),
   company |-> Strip(f.company), website |-> Strip(f.website),
   industry |-> Strip(f.industry)]

NoEntry == Entry("", "", "", "", "", <<>>, -1)

NoCalls == [site |-> FALSE, news |-> FALSE, llm |-> FALSE]

NoSite == [requested |-> FALSE, raised |-> "", text |-> ""]

\* the outcomes of a call are drawn only when the call is made
SiteChoices(website) ==
  IF website # "" /\ is_valid_url(website) THEN SiteOutcomes ELSE {"ok_empty"}

NewsChoices(requested, responses) ==
  IF requested THEN responses ELSE {NewsResp("timeout", "", "absent", <<>>)}

LlmChoices(called) == IF called THEN LlmOutcomes ELSE {"ok"}

VARIABLES
  frontend,          \* "cli": main2.py runs, "gui": app2.py runs, "probe": one function is called
  config,            \* config.py: [news_key, gemini_key]
  file,              \* networking_memory.json
  now,               \* datetime.now(), a clock that ticks at every reading
  runs,              \* the pipeline runs started so far
  cli,               \* the console: the last menu action and what it printed
  form,              \* gui: self.form_vars
  current_contacts,  \* gui: self.current_contacts
  contacts_tree,     \* gui: the rows of self.contacts_tree, <<name, company>>
  status_var,        \* gui: self.status_var
  research_text,     \* gui: what self.research_text shows
  tkQueue,           \* gui: the callbacks posted with root.after(0, ..), oldest first
  fg,                \* gui: the foreground (Tk main loop) thread
  worker,            \* gui: the threads started by add_contact_async, by run
  probe              \* the call and the result of a function called alone

vars == <<frontend, config, file, now, runs, cli, form, current_contacts,
          contacts_tree, status_var, research_text, tkQueue, fg, worker, probe>>

guiVars == <<form, current_contacts, contacts_tree, status_var, research_text,
             tkQueue, fg, worker>>

Configs == [news_key : {"", "key"}, gemini_key : {"", "key"}]

\* ------------------------------------------------- the console front end
\* what the last menu action did: the value its store function returned, the
\* lines it printed, the list it loaded (prior), the record it built or
\* removed (entry), the requests it made, how its write of the file went
CliReport(op, ret, console, prior, entry, calls, write) ==
  [crashed |-> FALSE, op |-> op, ret |-> ret, console |-> console,
   prior |-> prior, entry |-> entry, calls |-> calls, write |-> write]

CliCrash(op, exc, calls) ==
  [crashed |-> TRUE, op |-> op, ret |-> exc, console |-> {"Traceback"},
   prior |-> <<>>, entry |-> NoEntry, calls |-> calls, write |-> "none"]

\* get_user_input: the loops ask again until the answers pass
Accepted(f) ==
  /\ Strip(f.name) # ""
  /\ Strip(f.company) # ""
  /\ Strip(f.website) = "" \/ is_valid_url(Strip(f.website))

\* main2.save_to_memory: [file, ret, console, prior, entry, write]
save_to_memory(f, info, summary, news_links, created, outcome) ==
  IF Strip(info.name) = "" \/ Strip(info.company) = ""
  THEN [file |-> f, ret |-> "False", console |-> {"Name and company are required fields."},
        prior |-> <<>>, entry |-> NoEntry, write |-> "none"]
  ELSE LET new_entry == Entry(sanitize_input(info.name), sanitize_input(info.company),
                              sanitize_input(info.website), sanitize_input(info.industry),
                              summary, news_links, created)
           loaded == load_memory(f)
           memory_data == Append(loaded.value, new_entry)
           saved == save_memory(f, memory_data, outcome)
       IN  IF loaded.raised # ""
           THEN [file |-> f, ret |-> loaded.raised, console |-> {"Traceback"},
                 prior |-> <<>>, entry |-> new_entry, write |-> "none"]
           ELSE IF saved.ret
           THEN [file |-> saved.file, ret |-> "True", console |-> {"Contact saved successfully!"},
                 prior |-> loaded.value, entry |-> new_entry, write |-> outcome]
           ELSE [file |-> saved.file, ret |-> "False",
                 console |-> {"Error saving memory", "Failed to save contact."},
                 prior |-> loaded.value, entry |-> new_entry, write |-> outcome]

\* add_new_contact after the website step and the news step
CliBrief(site, news, llm) ==
  LET articles == IF news.raised = "" THEN news.value ELSE <<>>
      brief == generate_summary(AllContent(site.text, NewsContent(articles)), llm)
  IN  [summary |-> brief.text,
       news_links |-> NewsLinks(articles),
       warnings |-> (IF site.raised # "" THEN {"Website scraping failed"} ELSE {})
                    \cup (IF news.raised # "" THEN {"News fetching failed"} ELSE {}),
       calls |-> [site |-> site.requested, news |-> news.requested, llm |-> brief.called]]

\* main2.add_new_contact, menu choice 3; a set of one element names a value
\* that is computed once
add_new_contact ==
  /\ frontend = "cli" /\ ~cli.crashed /\ runs < MaxRuns
  /\ \E typed \in {f \in FormInputs : Accepted(f)} :
       LET contact_info == StripForm(typed) IN
       \E so \in SiteChoices(contact_info.website),
          nr \in NewsChoices(contact_info.industry # "", PipelineNews) :
         \E site \in {IF contact_info.website # ""
                      THEN scrape_website(contact_info.website, so) ELSE NoSite},
            news \in {IF contact_info.industry # ""
                      THEN fetch_news(config.news_key, contact_info.industry, nr)
                      ELSE FetchResult(FALSE, "", <<>>)} :
             \E llm \in LlmChoices(CliBrief(site, news, "ok").calls.llm),
                outcome \in WriteOutcomes :
               \E res \in {CliBrief(site, news, llm)} :
               \E saved \in {save_to_memory(file, contact_info, res.summary,
                                           res.news_links, now + 1, outcome)} :
                   /\ file' = saved.file
                   /\ cli' = IF saved.ret \in {"True", "False"}
                             THEN CliReport("add", saved.ret, res.warnings \cup saved.console,
                                            saved.prior, saved.entry, res.calls, saved.write)
                             ELSE CliCrash("add", saved.ret, res.calls)
  /\ now' = now + 1
  /\ runs' = runs + 1
  /\ UNCHANGED <<frontend, config, probe>>
  /\ UNCHANGED guiVars

RemoveAt(q, i) == SubSeq(q, 1, i - 1) \o SubSeq(q, i + 1, Len(q))

\* main2.delete_contact, menu choice 2
delete_contact ==
  /\ frontend = "cli" /\ ~cli.crashed
  /\ LET loaded == load_memory(file)
         memory == loaded.value
     IN  \E typed \in {"q", "abc", "number"}, choice_num \in 0..(Len(memory) + 1),
            outcome \in WriteOutcomes :
           IF loaded.raised # ""
           THEN /\ cli' = CliCrash("delete", loaded.raised, NoCalls)
                /\ file' = file
           ELSE IF memory = <<>>
           THEN /\ cli' = CliReport("delete", "None", {"No saved contacts to delete."},
                                    memory, NoEntry, NoCalls, "none")
                /\ file' = file
           ELSE IF typed = "q"
           THEN /\ cli' = CliReport("delete", "None", {"Delete cancelled."}, memory, NoEntry, NoCalls, "none")
                /\ file' = file
           ELSE IF typed = "abc"
           THEN /\ cli' = CliReport("delete", "None", {"Please enter a valid number"},
                                    memory, NoEntry, NoCalls, "none")
                /\ file' = file
           ELSE IF 1 <= choice_num /\ choice_num <= Len(memory)
           THEN \E saved \in {save_memory(file, RemoveAt(memory, choice_num), outcome)} :
                    /\ file' = saved.file
                    /\ cli' = CliReport("delete", "None",
                                        IF saved.ret THEN {"Successfully deleted"}
                                        ELSE {"Error saving memory", "Error saving changes."},
                                        memory, memory[choice_num], NoCalls, outcome)
           ELSE /\ cli' = CliReport("delete", "None", {"Please enter a number between"},
                                    memory, NoEntry, NoCalls, "none")
                /\ file' = file
  /\ UNCHANGED <<frontend, config, now, runs, probe>>
  /\ UNCHANGED guiVars

\* main2.view_past_memories, menu choice 1
view_past_memories ==
  /\ frontend = "cli" /\ ~cli.crashed
  /\ LET loaded == load_memory(file)
     IN  cli' = IF loaded.raised # "" THEN CliCrash("view", loaded.raised, NoCalls)
                ELSE CliReport("view", "None",
                               IF loaded.value = <<>> THEN {"No networking history found."}
                               ELSE {"Past Networking Notes"},
                               loaded.value, NoEntry, NoCalls, "none")
  /\ UNCHANGED <<frontend, config, file, now, runs, probe>>
  /\ UNCHANGED guiVars

\* ----------------------------------------------------- the Tk front end
Mem(kind, recs) == [kind |-> kind, recs |-> recs]

\* the rows populate_contacts_tree inserts: the name and the company
TreeOf(mem) ==
  IF mem.kind = "list" THEN [i \in 1..Len(mem.recs) |-> <<mem.recs[i].name, mem.recs[i].company>>]
  ELSE <<>>

\* load_contacts up to populate_contacts_tree: what self.current_contacts is
\* to become, or the exception raised and where
GuiRead(f) ==
  CASE f.kind = "absent" -> [raised |-> "", at |-> "", mem |-> Mem("list", <<>>)]
    [] f.kind = "list" -> [raised |-> "", at |-> "", mem |-> Mem("list", f.recs)]
    [] f.kind = "empty_obj" -> [raised |-> "", at |-> "", mem |-> Mem("dict", <<>>)]
    [] f.kind = "scalar" -> [raised |-> "TypeError", at |-> "populate", mem |-> Mem("scalar", <<>>)]
    [] f.kind = "malformed" -> [raised |-> "JSONDecodeError", at |-> "read", mem |-> Mem("list", <<>>)]
    [] f.kind = "badutf8" -> [raised |-> "UnicodeDecodeError", at |-> "read", mem |-> Mem("list", <<>>)]
    [] f.kind = "unreadable" -> [raised |-> "OSError", at |-> "read", mem |-> Mem("list", <<>>)]

\* a json.dump that leaves out the last contact of the list
GuiDump_drops_last(mem) ==
  CASE mem.kind = "list" ->
         ListFile(IF mem.recs = <<>> THEN <<>> ELSE SubSeq(mem.recs, 1, Len(mem.recs) - 1))
    [] mem.kind = "dict" -> FileOf("empty_obj", <<>>)
    [] mem.kind = "scalar" -> FileOf("scalar", <<>>)

\* json.dump(self.current_contacts, f): what the file holds afterwards
GuiDump(mem) ==
  CASE mem.kind = "list" -> ListFile(mem.recs)
    [] mem.kind = "dict" -> FileOf("empty_obj", <<>>)
    [] mem.kind = "scalar" -> FileOf("scalar", <<>>)

\* the foreground thread: "idle" in the main loop, or inside a handler that
\* waits (for the file, or for the user to close a modal box); loaded is what
\* json.load returned, name and company are the values of the selected row
\* box is the title of the modal message box that is open
Idle == [pc |-> "idle", loaded |-> Mem("list", <<>>), name |-> "", company |-> "", box |-> ""]

Box(title) == [Idle EXCEPT !.pc = "box", !.box = title]

\* a worker thread: its place in process_new_contact, its locals, the
\* requests it has made (calls), whether its write of the file failed, and
\* what save_contact_to_memory returned; "done": the thread has ended
NoWorker ==
  [pc |-> "none", contact_info |-> EmptyForm, site_text |-> "", news_links |-> <<>>,
   summary |-> "", entry |-> NoEntry, calls |-> NoCalls, write |-> "", ret |-> ""]

\* save_contact_to_memory has no return statement; of the thread that has
\* ended only the fate of its write is kept: "ok", "failed", or "" (none tried)
Ended(write) == [NoWorker EXCEPT !.pc = "done", !.ret = "None", !.write = write]

\* a callback posted with root.after(0, ..): exc is the exception the name e
\* of its lambda stood for when it was posted
Callback(kind, run, exc) == [kind |-> kind, run |-> run, exc |-> exc]

\* load_contacts from its start to the end of populate_contacts_tree's first
\* statement that can raise: the file is read on the foreground
LoadRead ==
  LET r == GuiRead(file)
  IN  /\ fg' = [fg EXCEPT !.pc = IF r.raised = "" THEN "load_assign" ELSE "load_error",
                          !.loaded = IF r.raised = "" THEN r.mem ELSE Mem("list", <<>>)]
      /\ current_contacts' = IF r.at = "populate" THEN r.mem ELSE current_contacts
      /\ contacts_tree' = IF r.at = "populate" THEN <<>> ELSE contacts_tree

\* Refresh button: load_contacts
load_contacts ==
  /\ frontend = "gui" /\ fg.pc = "idle"
  /\ LoadRead
  /\ UNCHANGED <<frontend, config, file, now, runs, cli, form, status_var,
                 tkQueue, worker, research_text, probe>>

\* load_contacts, the rest: the assignment, populate_contacts_tree, the status
load_contacts_assign ==
  /\ frontend = "gui" /\ fg.pc = "load_assign"
  /\ current_contacts' = fg.loaded
  /\ contacts_tree' = TreeOf(fg.loaded)
  /\ status_var' = "Loaded contacts"
  /\ fg' = [fg EXCEPT !.pc = "idle", !.loaded = Mem("list", <<>>)]
  /\ UNCHANGED <<frontend, config, file, now, runs, cli, form, tkQueue, worker, research_text, probe>>

\* load_contacts, the handler: the error box is closed, the list is emptied
load_contacts_except ==
  /\ frontend = "gui" /\ fg.pc = "load_error"
  /\ current_contacts' = Mem("list", <<>>)
  /\ fg' = [fg EXCEPT !.pc = "idle"]
  /\ UNCHANGED <<frontend, config, file, now, runs, cli, form, contacts_tree, status_var,
                 tkQueue, worker, research_text, probe>>

\* the user types into the form
set_form(inputs) ==
  /\ frontend = "gui" /\ fg.pc = "idle"
  /\ \E f \in inputs : form' = f
  /\ UNCHANGED <<frontend, config, file, now, runs, cli, current_contacts, contacts_tree,
                 status_var, tkQueue, fg, worker, research_text, probe>>

\* Clear Form button
clear_form ==
  /\ frontend = "gui" /\ fg.pc = "idle"
  /\ form' = EmptyForm
  /\ status_var' = "Form cleared"
  /\ UNCHANGED <<frontend, config, file, now, runs, cli, current_contacts, contacts_tree,
                 tkQueue, fg, worker, research_text, probe>>

\* Research & Save button
add_contact_async ==
  /\ frontend = "gui" /\ fg.pc = "idle"
  /\ IF Strip(form.name) = "" \/ Strip(form.company) = ""
     THEN /\ fg' = Box("Validation Error")
          /\ UNCHANGED <<status_var, runs, worker>>
     ELSE /\ runs + 1 \in DOMAIN worker
          /\ status_var' = "Researching contact"
          /\ runs' = runs + 1
          /\ worker' = [worker EXCEPT ![runs + 1] = [NoWorker EXCEPT !.pc = "start"]]
          /\ UNCHANGED fg
  /\ UNCHANGED <<frontend, config, file, now, cli, form, current_contacts, contacts_tree,
                 research_text, tkQueue, probe>>

\* the index of the first contact with this name and this company, 0 if none
FirstMatch(recs, name, company) ==
  LET hits == {i \in 1..Len(recs) : recs[i].name = name /\ recs[i].company = company}
  IN  IF hits = {} THEN 0 ELSE CHOOSE i \in hits : \A j \in hits : i <= j

\* delete_selected_contact, the loop: self.current_contacts afterwards
PopFirst(mem, name, company) ==
  LET i == IF mem.kind = "list" THEN FirstMatch(mem.recs, name, company) ELSE 0
  IN  IF i = 0 THEN mem ELSE Mem("list", RemoveAt(mem.recs, i))

\* Delete Selected button: with no row selected (sel = 0) a warning box,
\* else the values of the row are read and the question is asked
delete_selected_contact ==
  /\ frontend = "gui" /\ fg.pc = "idle"
  /\ \E sel \in 0..Len(contacts_tree) :
       fg' = IF sel = 0 THEN Box("Warning")
             ELSE [fg EXCEPT !.pc = "confirm_delete", !.name = contacts_tree[sel][1],
                             !.company = contacts_tree[sel][2]]
  /\ UNCHANGED <<frontend, config, file, now, runs, cli, form, current_contacts, contacts_tree,
                 status_var, tkQueue, worker, research_text, probe>>

\* delete_selected_contact, the question answered no
delete_selected_contact_no ==
  /\ frontend = "gui" /\ fg.pc = "confirm_delete"
  /\ fg' = Idle
  /\ UNCHANGED <<frontend, config, file, now, runs, cli, form, current_contacts, contacts_tree,
                 status_var, tkQueue, worker, research_text, probe>>

\* delete_selected_contact, the question answered yes
delete_selected_contact_yes ==
  /\ frontend = "gui" /\ fg.pc = "confirm_delete"
  /\ fg' = [fg EXCEPT !.pc = "delete_write"]
  /\ UNCHANGED <<frontend, config, file, now, runs, cli, form, current_contacts, contacts_tree,
                 status_var, tkQueue, worker, research_text, probe>>

\* delete_selected_contact after the question: the loop, the write, and
\* either the new tree and status or the error box
delete_selected_contact_write ==
  /\ frontend = "gui" /\ fg.pc = "delete_write"
  /\ \E outcome \in WriteOutcomes :
       LET popped == PopFirst(current_contacts, fg.name, fg.company)
       IN  /\ current_contacts' = popped
           /\ file' = WriteFile(file, GuiDump(popped), outcome)
           /\ fg' = IF outcome = "ok" THEN Idle ELSE Box("Failed to delete contact")
           /\ contacts_tree' = IF outcome = "ok" THEN TreeOf(popped) ELSE contacts_tree
           /\ status_var' = IF outcome = "ok" THEN "Deleted" ELSE status_var
  /\ UNCHANGED <<frontend, config, now, runs, cli, form, tkQueue, worker, research_text, probe>>

\* the user closes the message box: the handler that opened it returns
close_box ==
  /\ frontend = "gui" /\ fg.pc = "box"
  /\ fg' = Idle
  /\ UNCHANGED <<frontend, config, file, now, runs, cli, form, current_contacts, contacts_tree,
                 status_var, research_text, tkQueue, worker, probe>>

\* show_final_results, its first statements: the results replace the
\* research text and the status announces the save
show_final_results ==
  /\ research_text' = {"results"}
  /\ status_var' = "Research complete! Contact saved successfully."
  /\ fg' = [fg EXCEPT !.pc = "final_clear"]
  /\ UNCHANGED <<form, current_contacts, contacts_tree>>

\* show_final_results, the rest: clear_form, and load_contacts up to the end
\* of its first part
show_final_results_reload ==
  /\ frontend = "gui" /\ fg.pc = "final_clear"
  /\ form' = EmptyForm
  /\ status_var' = "Form cleared"
  /\ LoadRead
  /\ UNCHANGED <<frontend, config, file, now, runs, cli, tkQueue, worker, research_text, probe>>

\* the main loop runs the oldest callback posted with root.after(0, ..).
\* The lambdas posted from the two except blocks read the variable e of the
\* block: once the worker has left the block e is unbound, the lambda raises
\* NameError and Tk logs a traceback instead of showing the text.
run_callback ==
  /\ frontend = "gui" /\ fg.pc = "idle" /\ tkQueue # <<>>
  /\ tkQueue' = Tail(tkQueue)
  /\ LET cb == Head(tkQueue)
         w == worker[cb.run]
     IN  CASE cb.kind = "final" ->
                show_final_results
           [] cb.kind = "warn" ->
                /\ research_text' = IF w.pc = "site_except"
                                    THEN research_text \cup {"Website scraping failed"}
                                    ELSE research_text
                /\ UNCHANGED <<form, status_var, fg, current_contacts, contacts_tree>>
           [] cb.kind = "save_error" ->
                /\ fg' = IF w.pc = "save_except" THEN Box("Save Error") ELSE fg
                /\ UNCHANGED <<form, status_var, research_text, current_contacts, contacts_tree>>
  /\ UNCHANGED <<frontend, config, file, now, runs, cli, worker, probe>>

\* process_new_contact on the worker thread: the form is read, the website scraped
process_new_contact_website(r) ==
  /\ frontend = "gui" /\ worker[r].pc = "start"
  /\ LET contact_info == StripForm(form) IN
     \E so \in SiteChoices(contact_info.website) :
       LET site == IF contact_info.website # "" THEN scrape_website(contact_info.website, so)
                   ELSE NoSite
       IN  /\ worker' = [worker EXCEPT
                 ![r].contact_info = contact_info,
                 ![r].site_text = site.text,
                 ![r].calls = [@ EXCEPT !.site = site.requested],
                 ![r].pc = IF site.raised # "" THEN "site_except" ELSE "news"]
           /\ tkQueue' = IF site.raised # ""
                         THEN Append(tkQueue, Callback("warn", r, site.raised))
                         ELSE tkQueue
  /\ UNCHANGED <<frontend, config, file, now, runs, cli, form, current_contacts, contacts_tree,
                 status_var, fg, research_text, probe>>

\* process_new_contact: the news, the summary, show_final_results is posted
process_new_contact_news(r) ==
  /\ frontend = "gui" /\ worker[r].pc \in {"site_except", "news"}
  /\ LET contact_info == worker[r].contact_info
         asked == contact_info.industry # "" /\ config.news_key # ""
     IN  \E nr \in NewsChoices(asked, PipelineNews) :
           LET news == IF contact_info.industry # ""
                       THEN gui_fetch_news(config.news_key, contact_info.industry, nr)
                       ELSE FetchResult(FALSE, "", <<>>)
               content == AllContent(worker[r].site_text, NewsContent(news.value))
           IN  \E llm \in LlmChoices(gui_generate_summary(content, config.gemini_key, "ok").called) :
                 LET brief == gui_generate_summary(content, config.gemini_key, llm)
                 IN  worker' = [worker EXCEPT
                        ![r].news_links = NewsLinks(news.value),
                        ![r].summary = brief.text,
                        ![r].calls = [@ EXCEPT !.news = news.requested, !.llm = brief.called],
                        ![r].pc = "save"]
  /\ tkQueue' = Append(tkQueue, Callback("final", r, ""))
  /\ UNCHANGED <<frontend, config, file, now, runs, cli, form, current_contacts, contacts_tree,
                 status_var, fg, research_text, probe>>

\* save_contact_to_memory: new_entry is built and appended to self.current_contacts
save_contact_to_memory_append(r) ==
  /\ frontend = "gui" /\ worker[r].pc = "save"
  /\ LET ci == worker[r].contact_info
         new_entry == Entry(ci.name, ci.company, ci.website, ci.industry,
                            worker[r].summary, worker[r].news_links, now + 1)
     IN  IF current_contacts.kind = "list"
         THEN /\ current_contacts' = Mem("list", Append(current_contacts.recs, new_entry))
              /\ worker' = [worker EXCEPT ![r].entry = new_entry, ![r].pc = "open"]
              /\ UNCHANGED tkQueue
         ELSE \* AttributeError: a dict or a number has no append
              /\ worker' = [worker EXCEPT ![r].entry = new_entry, ![r].pc = "save_except"]
              /\ tkQueue' = Append(tkQueue, Callback("save_error", r, "AttributeError"))
              /\ UNCHANGED current_contacts
  /\ now' = now + 1
  /\ UNCHANGED <<frontend, config, file, runs, cli, form, contacts_tree, status_var, fg, research_text, probe>>

\* save_contact_to_memory: open(MEMORY_FILE, "w") empties the file
save_contact_to_memory_open(r) ==
  /\ frontend = "gui" /\ worker[r].pc = "open"
  /\ \E ok \in BOOLEAN :
       IF ok
       THEN /\ file' = FileOf("malformed", <<>>)
            /\ worker' = [worker EXCEPT ![r].pc = "dump"]
            /\ UNCHANGED tkQueue
       ELSE /\ worker' = [worker EXCEPT ![r].pc = "save_except", ![r].write = "failed"]
            /\ tkQueue' = Append(tkQueue, Callback("save_error", r, "OSError"))
            /\ UNCHANGED file
  /\ UNCHANGED <<frontend, config, now, runs, cli, form, current_contacts, contacts_tree,
                 status_var, fg, research_text, probe>>

\* save_contact_to_memory: json.dump(self.current_contacts, f) and the close.
\* The text is written from the start of the file as it is now: if another
\* writer has put a longer list there since this thread's open, the end of
\* that list stays behind the new text and the file is no JSON any more.
save_contact_to_memory_dump(r) ==
  /\ frontend = "gui" /\ worker[r].pc = "dump"
  /\ \E ok \in BOOLEAN :
       IF ok
       THEN /\ file' = IF /\ file.kind = "list" /\ current_contacts.kind = "list"
                         /\ Len(file.recs) > Len(current_contacts.recs)
                      THEN FileOf("malformed", <<>>)
                      ELSE GuiDump(current_contacts)
            /\ worker' = [worker EXCEPT ![r] = Ended("ok")]
            /\ UNCHANGED tkQueue
       ELSE /\ file' = FileOf("malformed", <<>>)
            /\ worker' = [worker EXCEPT ![r].pc = "save_except", ![r].write = "failed"]
            /\ tkQueue' = Append(tkQueue, Callback("save_error", r, "OSError"))
  /\ UNCHANGED <<frontend, config, now, runs, cli, form, current_contacts, contacts_tree,
                 status_var, fg, research_text, probe>>

\* save_contact_to_memory: the except block is left, the thread ends
save_contact_to_memory_except(r) ==
  /\ frontend = "gui" /\ worker[r].pc = "save_except"
  /\ worker' = [worker EXCEPT ![r] = Ended(worker[r].write)]
  /\ UNCHANGED <<frontend, config, file, now, runs, cli, form, current_contacts, contacts_tree,
                 status_var, tkQueue, fg, research_text, probe>>

\* --------------------------------------------------------- the specifications
\* probe: a function called alone, its arguments, what the service answers
\* if it is asked, and the result once the call has returned
ProbeOf(fe, api_key, query, resp, done, result) ==
  [fe |-> fe, api_key |-> api_key, query |-> query, resp |-> resp,
   done |-> done, result |-> result]

NoProbe == ProbeOf("", "", "", NewsResp("timeout", "", "absent", <<>>), FALSE,
                   FetchResult(FALSE, "", <<>>))

Runs == 1..MaxRuns
Threads == 1..MaxThreads

InitCommon ==
  /\ config \in Configs
  /\ file \in InitFiles
  /\ now = 0
  /\ runs = 0
  /\ cli = CliReport("start", "None", {}, <<>>, NoEntry, NoCalls, "none")
  /\ form = EmptyForm
  /\ research_text = {"welcome"}
  /\ tkQueue = <<>>
  /\ fg = Idle
  /\ probe = NoProbe

\* main2.main is about to show its menu
InitCli ==
  /\ frontend = "cli"
  /\ InitCommon
  /\ worker = [r \in Threads |-> NoWorker]
  /\ current_contacts = Mem("list", <<>>)
  /\ contacts_tree = <<>>
  /\ status_var = "Ready"

\* NetworkingAssistantGUI.__init__ has run: it ends with load_contacts
InitGui ==
  /\ frontend = "gui"
  /\ InitCommon
  /\ LET r == GuiRead(file)
         mem == IF r.raised = "" THEN r.mem ELSE Mem("list", <<>>)
     IN  /\ current_contacts = mem
         /\ contacts_tree = TreeOf(mem)
         /\ status_var = IF r.raised = "" THEN "Loaded contacts" ELSE "Ready"
  /\ worker = [r \in Threads |-> NoWorker]

\* fetch_news of either front end is about to be called
InitFetch ==
  /\ frontend = "probe"
  /\ config = [news_key |-> "", gemini_key |-> ""]
  /\ file = FileOf("absent", <<>>)
  /\ now = 0 /\ runs = 0
  /\ cli = CliReport("start", "None", {}, <<>>, NoEntry, NoCalls, "none")
  /\ form = EmptyForm
  /\ research_text = {"welcome"}
  /\ tkQueue = <<>>
  /\ fg = Idle
  /\ worker = [r \in Threads |-> NoWorker]
  /\ current_contacts = Mem("list", <<>>)
  /\ contacts_tree = <<>>
  /\ status_var = "Ready"
  /\ \E fe \in {"cli", "gui"}, api_key \in {"", "key"},
        query \in {"", " ", "energy", " energy "}, resp \in NewsResponses :
       probe = ProbeOf(fe, api_key, query, resp, FALSE, FetchResult(FALSE, "", <<>>))

\* the call of fetch_news returns or raises
call_fetch_news ==
  /\ frontend = "probe" /\ ~probe.done
  /\ probe' = [probe EXCEPT
        !.done = TRUE,
        !.result = IF probe.fe = "cli" THEN fetch_news(probe.api_key, probe.query, probe.resp)
                   ELSE gui_fetch_news(probe.api_key, probe.query, probe.resp)]
  /\ UNCHANGED <<frontend, config, file, now, runs, cli>>
  /\ UNCHANGED guiVars

NextCli ==
  \/ add_new_contact
  \/ delete_contact
  \/ view_past_memories

NextGui(inputs) ==
  \/ load_contacts
  \/ load_contacts_assign
  \/ load_contacts_except
  \/ set_form(inputs)
  \/ clear_form
  \/ add_contact_async
  \/ delete_selected_contact
  \/ delete_selected_contact_no
  \/ delete_selected_contact_yes
  \/ delete_selected_contact_write
  \/ close_box
  \/ run_callback
  \/ show_final_results_reload
  \/ \E r \in DOMAIN worker : process_new_contact_website(r)
  \/ \E r \in DOMAIN worker : process_new_contact_news(r)
  \/ \E r \in DOMAIN worker : save_contact_to_memory_append(r)
  \/ \E r \in DOMAIN worker : save_contact_to_memory_open(r)
  \/ \E r \in DOMAIN worker : save_contact_to_memory_dump(r)
  \/ \E r \in DOMAIN worker : save_contact_to_memory_except(r)

\* the strings is_valid_url and scrape_website are called with alone
ProbeUrls ==
  {"https://acme.example", " https://acme.example ", "http://beta.example/about",
   "HTTP://ACME.EXAMPLE", "ftp://acme.example", "//acme.example", "https://",
   "acme.example", "", " ", "http://:8080", "https://user@", "http://[::1"}

UrlProbe(fn, url, outcome, done, result) ==
  [fn |-> fn, url |-> url, outcome |-> outcome, done |-> done, result |-> result]

\* is_valid_url or scrape_website is about to be called; for a URL without a
\* host requests.get can only fail
InitUrl ==
  /\ frontend = "probe"
  /\ config = [news_key |-> "", gemini_key |-> ""]
  /\ file = FileOf("absent", <<>>)
  /\ now = 0 /\ runs = 0
  /\ cli = CliReport("start", "None", {}, <<>>, NoEntry, NoCalls, "none")
  /\ form = EmptyForm
  /\ research_text = {"welcome"}
  /\ tkQueue = <<>>
  /\ fg = Idle
  /\ worker = [r \in Threads |-> NoWorker]
  /\ current_contacts = Mem("list", <<>>)
  /\ contacts_tree = <<>>
  /\ status_var = "Ready"
  /\ \E url \in ProbeUrls :
       \/ probe = UrlProbe("is_valid_url", url, "error", FALSE, FALSE)
       \/ \E outcome \in SiteOutcomes :
            /\ is_valid_url(url) /\ UrlParse(Strip(url)).hostname = "" => outcome = "error"
            /\ probe = UrlProbe("scrape_website", url, outcome, FALSE, NoSite)

\* the call of is_valid_url returns
call_is_valid_url ==
  /\ frontend = "probe" /\ ~probe.done /\ probe.fn = "is_valid_url"
  /\ probe' = [probe EXCEPT !.done = TRUE, !.result = is_valid_url(probe.url)]
  /\ UNCHANGED <<frontend, config, file, now, runs, cli>>
  /\ UNCHANGED guiVars

\* the call of scrape_website returns or raises
call_scrape_website ==
  /\ frontend = "probe" /\ ~probe.done /\ probe.fn = "scrape_website"
  /\ probe' = [probe EXCEPT !.done = TRUE,
                            !.result = scrape_website(probe.url, probe.outcome)]
  /\ UNCHANGED <<frontend, config, file, now, runs, cli>>
  /\ UNCHANGED guiVars

NextUrl ==
  \/ call_is_valid_url
  \/ call_scrape_website

\* the article objects the loop over news_articles is run on alone: fields
\* may be missing, and a title may be nothing but white space
ProbeArticles ==
  Articles \cup
  { [title |-> "T2", url |-> "u3"],
    [description |-> "D", url |-> "u3"],
    [url |-> "u3"],
    [title |-> "T2", description |-> "D"],
    [title |-> " ", description |-> "", url |-> "u4"] }

NewsProbe(fe, articles, done, news_links, news_content) ==
  [fn |-> "news_loop", fe |-> fe, articles |-> articles, done |-> done,
   news_links |-> news_links, news_content |-> news_content]

\* fetch_news has returned a list of articles to the pipeline
InitNews ==
  /\ frontend = "probe"
  /\ config = [news_key |-> "", gemini_key |-> ""]
  /\ file = FileOf("absent", <<>>)
  /\ now = 0 /\ runs = 0
  /\ cli = CliReport("start", "None", {}, <<>>, NoEntry, NoCalls, "none")
  /\ form = EmptyForm
  /\ research_text = {"welcome"}
  /\ tkQueue = <<>>
  /\ fg = Idle
  /\ worker = [r \in Threads |-> NoWorker]
  /\ current_contacts = Mem("list", <<>>)
  /\ contacts_tree = <<>>
  /\ status_var = "Ready"
  /\ \E fe \in {"cli", "gui"}, articles \in SeqsUpTo(ProbeArticles, MaxProbeArticles) :
       probe = NewsProbe(fe, articles, FALSE, <<>>, <<>>)

\* the loop "for article in news_articles" of either front end has run
news_loop ==
  /\ frontend = "probe" /\ ~probe.done /\ probe.fn = "news_loop"
  /\ probe' = [probe EXCEPT !.done = TRUE,
                            !.news_links = NewsLinks(probe.articles),
                            !.news_content = NewsContent(probe.articles)]
  /\ UNCHANGED <<frontend, config, file, now, runs, cli>>
  /\ UNCHANGED guiVars

\* the console front end
SpecCli == InitCli /\ [][NextCli]_vars

\* two Research & Save runs of the Tk front end that may overlap: the store
\* holds one contact, the keys are not configured, the user fills in the
\* required fields only
RaceStore == <<Entry("Bob", "Beta", "", "energy", "brief", <<"u1">>, 0)>>

RaceForms == {FormOf("Alice", "Acme", "", ""), FormOf("Carol", "Gamma", "", "")}

InitRace ==
  /\ frontend = "gui"
  /\ config = [news_key |-> "", gemini_key |-> ""]
  /\ file = ListFile(RaceStore)
  /\ now = 0 /\ runs = 0
  /\ cli = CliReport("start", "None", {}, <<>>, NoEntry, NoCalls, "none")
  /\ form \in RaceForms
  /\ research_text = {"welcome"}
  /\ tkQueue = <<>>
  /\ fg = Idle
  /\ probe = NoProbe
  /\ worker = [r \in 1..RaceThreads |-> NoWorker]
  /\ current_contacts = Mem("list", RaceStore)
  /\ contacts_tree = TreeOf(Mem("list", RaceStore))
  /\ status_var = "Loaded contacts"

NextRace ==
  \/ set_form(RaceForms)
  \/ add_contact_async
  \/ close_box
  \/ run_callback
  \/ show_final_results_reload
  \/ load_contacts_assign
  \/ load_contacts_except
  \/ \E r \in DOMAIN worker : process_new_contact_website(r)
  \/ \E r \in DOMAIN worker : process_new_contact_news(r)
  \/ \E r \in DOMAIN worker : save_contact_to_memory_append(r)
  \/ \E r \in DOMAIN worker : save_contact_to_memory_open(r)
  \/ \E r \in DOMAIN worker : save_contact_to_memory_dump(r)
  \/ \E r \in DOMAIN worker : save_contact_to_memory_except(r)

SpecRace == InitRace /\ [][NextRace]_vars

\* the loop of the pipeline over the articles, alone
SpecNews == InitNews /\ [][news_loop]_vars

\* the Tk front end, with its worker threads
SpecGui == InitGui /\ [][NextGui(FormInputs)]_vars

\* fetch_news called alone
SpecFetch == InitFetch /\ [][call_fetch_news]_vars

\* is_valid_url and scrape_website called alone
SpecUrl == InitUrl /\ [][NextUrl]_vars

\* ------------------------------------------------------------ the claims
\* the records a value of self.current_contacts iterates over
RecsOf(mem) == IF mem.kind = "list" THEN mem.recs ELSE <<>>

Matches(recs, name, company) ==
  {i \in 1..Len(recs) : recs[i].name = name /\ recs[i].company = company}

\* a step in which worker thread r ends
ThreadEnds(r) == worker[r].pc \notin {"none", "done"} /\ worker'[r].pc = "done"

\* a step of the console that runs the pipeline
PipelineRuns == frontend = "cli" /\ runs' = runs + 1

\* a step of the console that ends a menu action that wrote, or tried to
\* write, the file
CliWrites == frontend = "cli" /\ cli' # cli /\ cli'.write # "none"

\* a step in which delete_selected_contact has asked, has been answered yes,
\* and goes through its loop and its write
GuiDeletes == frontend = "gui" /\ fg.pc = "delete_write" /\ fg'.pc # "delete_write"

\* C1: every run of the pipeline started with a non-blank name and company
\* ends without an exception reaching the host and, unless the write of the
\* file itself failed, leaves the store a list whose last record is the one
\* the run built, added to what the store held
C1_PipelineAppendsOneRecord ==
  [][ /\ PipelineRuns =>
           /\ ~cli'.crashed
           /\ cli'.write = "ok" =>
                file' = ListFile(Append(load_memory(file).value, cli'.entry))
      /\ \A r \in DOMAIN worker :
           frontend = "gui" /\ ThreadEnds(r) /\ worker[r].write # "failed" =>
             /\ file'.kind = "list"
             /\ file'.recs # <<>>
             /\ file'.recs[Len(file'.recs)] = worker[r].entry ]_vars

\* C2: in every reachable state every record of the persisted store has a
\* name and a company that are not blank
C2_PersistedNamesNonBlank ==
  file.kind = "list" =>
    \A i \in 1..Len(file.recs) :
      Strip(file.recs[i].name) # "" /\ Strip(file.recs[i].company) # ""

C4_DeleteFirstMatch ==
  [][ /\ GuiDeletes /\ fg'.pc = "idle" =>
           LET recs == RecsOf(current_contacts)
               i == FirstMatch(recs, fg.name, fg.company)
           IN  /\ i # 0 => file' = ListFile(RemoveAt(recs, i)) /\ status_var' = "Deleted"
               /\ i = 0 => status_var' # "Deleted"
      /\ CliWrites /\ cli'.op = "delete" /\ cli'.write = "ok" =>
           LET i == FirstMatch(cli'.prior, cli'.entry.name, cli'.entry.company)
           IN  file' = ListFile(RemoveAt(cli'.prior, i)) ]_vars

\* C5: a delete of a pair the list holds once reports the removal and leaves
\* the list one shorter; a delete of a pair the list does not hold (the second
\* delete of the same pair) reports no removal and leaves the list as it was
C5_DeleteTwice ==
  [][ GuiDeletes /\ fg'.pc = "idle" =>
        LET recs == RecsOf(current_contacts)
            hits == Matches(recs, fg.name, fg.company)
        IN  /\ Cardinality(hits) = 1 =>
                 /\ status_var' = "Deleted"
                 /\ Len(RecsOf(current_contacts')) = Len(recs) - 1
            /\ hits = {} =>
                 /\ status_var' # "Deleted"
                 /\ current_contacts' = current_contacts ]_vars

\* C6: load never raises and always yields a list: load_memory raises for no
\* content of the file, and whenever the Tk front end is back in its main
\* loop what load_contacts left in self.current_contacts is a list
C6_LoadYieldsList ==
  /\ frontend = "cli" => load_memory(file).raised = ""
  /\ frontend = "gui" /\ fg.pc = "idle" => current_contacts.kind = "list"

\* C7: a save that cannot write the file returns false and raises nothing; a
\* save that succeeds returns true and the file holds the whole list
C7_SaveReturns ==
  [][ /\ CliWrites =>
           /\ ~cli'.crashed
           /\ cli'.op = "add" => cli'.ret = (IF cli'.write = "ok" THEN "True" ELSE "False")
           /\ cli'.op = "add" /\ cli'.write = "ok" =>
                file' = ListFile(Append(cli'.prior, cli'.entry))
      /\ \A r \in DOMAIN worker :
           frontend = "gui" /\ ThreadEnds(r) =>
             IF worker[r].pc = "dump"
             THEN worker'[r].ret = "True" /\ file' = GuiDump(current_contacts)
             ELSE worker'[r].ret \in {"False", "None"} ]_vars

\* C8: whenever a write of the store fails, during a run of the pipeline or a
\* delete, the user is shown an explicit error: a console line, or an error
\* box that opens
C8_WriteFailureReported ==
  [][ /\ CliWrites /\ cli'.write # "ok" => "Error saving memory" \in cli'.console
      /\ GuiDeletes /\ fg'.pc # "idle" => fg' = Box("Failed to delete contact")
      /\ /\ frontend = "gui" /\ tkQueue # <<>> /\ tkQueue' = Tail(tkQueue)
         /\ Head(tkQueue).kind = "save_error" /\ Head(tkQueue).exc = "OSError"
         => fg' = Box("Save Error") ]_vars

\* what is wrong with a response that carries no list of articles
Degraded(resp) == resp.kind # "object" \/ resp.status # "ok" \/ resp.akind # "list"

\* C9: fetch_news never raises, and returns the empty list for a timeout, a
\* transport or HTTP error, a status other than "ok", articles that are no
\* list, and any other malformed body
C9_FetchNewsNeverRaises ==
  frontend = "probe" /\ probe.done =>
    /\ probe.result.raised = ""
    /\ Degraded(probe.resp) => probe.result.value = <<>>

\* C10: fetch_news returns the empty list without a request to the network
\* whenever the query is blank or no API key is configured
C10_FetchNewsNoRequest ==
  frontend = "probe" /\ probe.done /\ (Strip(probe.query) = "" \/ probe.api_key = "") =>
    /\ ~probe.result.requested
    /\ probe.result.raised = ""
    /\ probe.result.value = <<>>

\* C11: the list fetch_news returns never holds more than num_articles
\* articles, whatever the service answers, and so no persisted record has more
\* than num_articles news_links
C11_FetchNewsBounded ==
  /\ frontend = "probe" /\ probe.done => Len(probe.result.value) <= num_articles
  /\ file.kind = "list" =>
       \A i \in 1..Len(file.recs) : Len(file.recs[i].news_links) <= num_articles

\* C12: the language model is never called when there is no content or no
\* GEMINI_API_KEY, and the summary is then the fixed sentinel; in particular
\* a run that fetched neither a website nor news persists the sentinel
C12_NoModelCallWithoutContentOrKey ==
  /\ /\ frontend = "cli" /\ cli.op = "add" /\ cli.entry # NoEntry
     /\ config.gemini_key = "" \/ (~cli.calls.site /\ ~cli.calls.news)
     => ~cli.calls.llm /\ cli.entry.summary = CliSentinel
  /\ \A r \in DOMAIN worker :
       /\ frontend = "gui" /\ worker[r].pc \in {"save", "open", "dump", "save_except"}
       /\ config.gemini_key = "" \/ (~worker[r].calls.site /\ ~worker[r].calls.news)
       => ~worker[r].calls.llm /\ worker[r].summary = GuiSentinel

\* C13: scrape_website on a URL that does not pass is_valid_url raises
\* ValueError and has sent no request
C13_InvalidUrlNoRequest ==
  /\ frontend = "probe" /\ probe.done /\ probe.fn = "scrape_website"
  /\ ~is_valid_url(probe.url)
  => probe.result.raised = "ValueError" /\ ~probe.result.requested

\* C13, its case: scrape_website has been called with a URL of another scheme
C13_Witness ==
  /\ frontend = "probe" /\ probe.done /\ probe.fn = "scrape_website"
  /\ probe.url = "ftp://acme.example"
  /\ probe.result.raised = "ValueError"

\* C16: is_valid_url never raises and is true exactly for the strings that,
\* trimmed, parse as a URL with scheme http or https and a host that is not
\* empty
C16_ValidUrlIffSchemeAndHost ==
  frontend = "probe" /\ probe.done /\ probe.fn = "is_valid_url" =>
    LET result == UrlParse(Strip(probe.url))
    IN  probe.result = (/\ ~result.raised
                        /\ result.scheme \in {"http", "https"}
                        /\ result.hostname # "")

\* C14: when scrape_website fails for a website that is not blank, nothing is
\* raised out of the pipeline, the run goes on to the news step with no
\* website content, and the user is shown the warning
C14_WebsiteFailureWarned ==
  [][ /\ PipelineRuns /\ cli'.crashed => cli'.ret \notin {"ValueError", "RuntimeError"}
      /\ \A r \in DOMAIN worker :
           frontend = "gui" /\ worker[r].pc = "start" /\ worker'[r].pc = "site_except" =>
             /\ worker'[r].site_text = ""
             /\ tkQueue' = Append(tkQueue, Callback("warn", r, tkQueue'[Len(tkQueue')].exc))
      /\ /\ frontend = "gui" /\ tkQueue # <<>> /\ tkQueue' = Tail(tkQueue)
         /\ Head(tkQueue).kind = "warn"
         => "Website scraping failed" \in research_text' ]_vars

\* C15: news_links is exactly the urls, in order, of the articles that have a
\* title or a description that is not blank and a url; each article with a
\* title or a description that is not blank gives one entry of the news
\* content; a missing field counts as blank
C15_NewsLinksOfArticles ==
  frontend = "probe" /\ probe.done /\ probe.fn = "news_loop" =>
    LET NonBlank(a) == Strip(Get(a, "title")) # "" \/ Strip(Get(a, "description")) # ""
        kept == SelectSeq(probe.articles, NonBlank)
        linked == SelectSeq(kept, LAMBDA a : Strip(Get(a, "url")) # "")
    IN  /\ probe.news_links = [i \in 1..Len(linked) |-> linked[i].url]
        /\ Len(probe.news_content) = Len(kept)

\* the records of the store that were created as the d-th of the session
CreatedAt(d) ==
  IF file.kind = "list" THEN {i \in 1..Len(file.recs) : file.recs[i].created_date = d}
  ELSE {}

\* C17: the last writer wins: a write of a run replaces the whole store by
\* the list the program holds in memory at that moment, whatever another
\* run has written before
C17_LastWriterWins ==
  [][ \A r \in DOMAIN worker :
        /\ frontend = "gui" /\ worker[r].pc = "dump" /\ worker'[r].pc = "done"
        /\ current_contacts.kind = "list"
        /\ ~(file.kind = "list" /\ Len(file.recs) > Len(current_contacts.recs))
        => file' = ListFile(current_contacts.recs) ]_vars

\* C17: two runs have overlapped, both have ended with a write that went
\* well, nothing is left to do, and the store holds the record of the second
\* run but not the record of the first
C17_Witness ==
  /\ frontend = "gui" /\ runs = 2 /\ now = 2
  /\ \A r \in DOMAIN worker : worker[r].pc = "done" /\ worker[r].write = "ok"
  /\ tkQueue = <<>> /\ fg.pc = "idle"
  /\ file.kind = "list"
  /\ CreatedAt(1) = {} /\ CreatedAt(2) # {}

\* the worker threads that have been started and have not ended
Active(w) == {r \in DOMAIN w : w[r].pc \notin {"none", "done"}}

\* a step of a worker thread
WorkerStep == \E r \in Active(worker) : worker'[r] # worker[r]

\* C18: at most one worker thread is active at any time, and a step of a
\* worker leaves the form, the in-memory contact list and the widgets alone:
\* all it does to the foreground is to post callbacks
C18_OneWorkerNoSharedState ==
  [][ /\ frontend = "gui" => Cardinality(Active(worker')) <= 1
      /\ frontend = "gui" /\ WorkerStep =>
           /\ current_contacts' = current_contacts
           /\ form' = form /\ contacts_tree' = contacts_tree
           /\ status_var' = status_var /\ research_text' = research_text ]_vars

\* a is b with some of its elements left out
RECURSIVE IsSubSeq(_, _)
IsSubSeq(a, b) ==
  IF a = <<>> THEN TRUE
  ELSE IF b = <<>> THEN FALSE
  ELSE IF Head(a) = Head(b) THEN IsSubSeq(Tail(a), Tail(b))
  ELSE IsSubSeq(a, Tail(b))

\* the store after the step holds every record it held before, except at
\* most one, with all their fields and in their order
KeepsAllButOne(before, after) ==
  \/ IsSubSeq(before, after)
  \/ \E i \in 1..Len(before) : IsSubSeq(RemoveAt(before, i), after)

\* C19: an append or a delete whose write goes well leaves every other
\* record of the store as it was, created_date included, and in the same
\* order: an append keeps all the records, a delete all but one
C19_OtherRecordsUnchanged ==
  [][ /\ /\ CliWrites /\ cli'.write = "ok" /\ file.kind = "list"
         => /\ file'.kind = "list"
            /\ cli'.op = "add" => IsSubSeq(file.recs, file'.recs)
            /\ cli'.op = "delete" => KeepsAllButOne(file.recs, file'.recs)
      /\ /\ GuiDeletes /\ fg'.pc = "idle" /\ file.kind = "list"
         => file'.kind = "list" /\ KeepsAllButOne(file.recs, file'.recs) ]_vars

\* C20: after a single run whose write went well, once the worker has ended
\* and the foreground has run show_final_results and load_contacts to their
\* end, the store holds the records it held before and the new record, and
\* the list in memory is the list in the store
C20_SaveAndReloadAgree ==
  /\ frontend = "gui" /\ runs = 1
  /\ worker[1].pc = "done" /\ worker[1].write = "ok"
  /\ tkQueue = <<>> /\ fg.pc = "idle"
  => /\ file.kind = "list"
     /\ IsSubSeq(RaceStore, file.recs)
     /\ CreatedAt(1) # {}
     /\ current_contacts = Mem("list", file.recs)

C22_FailedWriteLeavesList ==
  [][ /\ GuiDeletes /\ fg'.pc = "box" => current_contacts' = current_contacts
      /\ \A r \in DOMAIN worker :
           /\ frontend = "gui" /\ worker[r].pc \in {"open", "dump"}
           /\ worker'[r].pc = "save_except"
           => worker[r].entry \notin Range(current_contacts'.recs) ]_vars

====
